---- MODULE Spec2Model ----
(***************************************************************************)
(* Model of the ingress admission webhook: the policy table loaded by      *)
(* main, the decision (mutationRequired), the patch synthesis              *)
(* (createPatch / updateAnnotation), the handler (mutate / serve) and      *)
(* concurrently running handlers.                                          *)
(*                                                                         *)
(* Go values are modelled as follows.                                      *)
(*   interface{} (a decoded JSON value)  [t, s, m]: t is "str", "num" or   *)
(*                                       "obj"; s the string; m the object *)
(*   map[string]interface{}              a function from its keys          *)
(*   map[string]string                   [isNil, m]: a nil map and an      *)
(*                                       empty map differ on writes        *)
(*   a panic                             a result with panic = TRUE        *)
(***************************************************************************)
EXTENDS Naturals, Sequences, FiniteSets, TLC

\* The longest list the policy document holds.
MaxEntries == 2

\* The number of concurrently running request handlers.
NumHandlers == 2

-----------------------------------------------------------------------------
\* Strings of the program and of the inputs.

NamespaceSystem == "kube-system"
NamespacePublic == "kube-public"

ignoredNamespaces == <<NamespaceSystem, NamespacePublic>>

admissionWebhookAnnotationMutateKey == "admission-webhook-example.citrix.com/mutate"
admissionWebhookAnnotationStatusKey == "admission-webhook-example.citrix.com/status"

SecurePortKey == "ingress.citrix.com/secure-port"
InsecurePortKey == "ingress.citrix.com/insecure-port"

PatchTypeJSONPatch == "JSONPatch"

\* strings.ToLower on the strings that occur: it maps the upper-case letters
\* of its argument to lower case and leaves the rest.
ToLower(s) ==
    CASE s = "Class1" -> "class1"
      [] s = "CLASS1" -> "class1"
      [] s = "MUTATED" -> "mutated"
      [] OTHER -> s

-----------------------------------------------------------------------------
\* Decoded JSON values (interface{}).

EmptyMap == [k \in {} |-> ""]

Str(s) == [t |-> "str", s |-> s, m |-> EmptyMap]
Num == [t |-> "num", s |-> "", m |-> EmptyMap]
Obj(m) == [t |-> "obj", s |-> "", m |-> m]

\* map[string]string values of the object.
NilAnnotations == [isNil |-> TRUE, m |-> EmptyMap]
MakeMap(m) == [isNil |-> FALSE, m |-> m]

\* The defaults of the documents.
FullDefaults == (SecurePortKey :> Str("4443")) @@ (InsecurePortKey :> Str("81"))
AltDefaults == (SecurePortKey :> Str("8443"))
BadDefaults == (SecurePortKey :> Num)

\* The elements a policy document's list is made of: records, and one element
\* that is no record (a number).
NonRecord == Num

DocElements ==
    { NonRecord,
      Obj("defaultAnnotations" :> Obj(FullDefaults)),
      Obj(("ingressName" :> Str("test-ingress")) @@ ("defaultAnnotations" :> Obj(FullDefaults))),
      Obj(("ingressName" :> Str("test-ingress")) @@ ("defaultAnnotations" :> Obj(AltDefaults))),
      Obj(("ingressName" :> Str("Class1")) @@ ("defaultAnnotations" :> Obj(EmptyMap))),
      Obj("ingressName" :> Str("test-ingress")),
      Obj(("ingressName" :> Num) @@ ("defaultAnnotations" :> Obj(FullDefaults))),
      Obj(("ingressName" :> Str("Class1")) @@ ("defaultAnnotations" :> Obj(BadDefaults))) }

SeqsUpTo(S, n) == UNION { [1..k -> S] : k \in 0..n }

\* The policy document at the configured path: no file, a file that is no
\* JSON, a JSON value that is no list, or a list.
Documents ==
    { [kind |-> "missing", elems |-> <<>>],
      [kind |-> "syntax", elems |-> <<>>],
      [kind |-> "object", elems |-> <<>>] }
    \cup { [kind |-> "list", elems |-> es] : es \in SeqsUpTo(DocElements, MaxEntries) }

\* os.Open and ioutil.ReadAll of main: the bytes read; with no file, ReadAll
\* of the nil *os.File reads nothing.
ReadAll(doc) == IF doc.kind = "missing" THEN [kind |-> "syntax", elems |-> <<>>] ELSE doc

\* json.Unmarshal into a []map[string]interface{} that is nil: input that is
\* no JSON is refused before anything is stored; a value that is no list
\* stores nothing; of a list every element is stored, a record as its map and
\* any other element as a nil map, the error being that of the first such.
UnmarshalTable(bytes) ==
    CASE bytes.kind = "syntax" -> [err |-> TRUE, val |-> <<>>]
      [] bytes.kind = "object" -> [err |-> TRUE, val |-> <<>>]
      [] OTHER ->
           [err |-> \E i \in DOMAIN bytes.elems : bytes.elems[i].t # "obj",
            val |-> [i \in DOMAIN bytes.elems |->
                       IF bytes.elems[i].t = "obj" THEN bytes.elems[i].m ELSE EmptyMap]]

\* The table main hands to the server: the error of Unmarshal is dropped.
LoadTable(doc) == UnmarshalTable(ReadAll(doc)).val

-----------------------------------------------------------------------------
\* The object of a request: metav1.ObjectMeta, or the nil pointer mutate holds
\* when the kind is not Ingress.

NilMeta == [isNil |-> TRUE, Namespace |-> "", Name |-> "", Annotations |-> NilAnnotations]
Meta(ns, name, ann) == [isNil |-> FALSE, Namespace |-> ns, Name |-> name, Annotations |-> ann]

\* The list is walked in order; metadata.Namespace of a nil metadata panics.
RECURSIVE admissionRequiredFrom(_, _, _)
admissionRequiredFrom(ignoredList, i, metadata) ==
    IF i > Len(ignoredList) THEN [panic |-> FALSE, val |-> TRUE]
    ELSE IF metadata.isNil THEN [panic |-> TRUE, val |-> FALSE]
    ELSE IF metadata.Namespace = ignoredList[i] THEN [panic |-> FALSE, val |-> FALSE]
    ELSE admissionRequiredFrom(ignoredList, i + 1, metadata)

admissionRequired(ignoredList, admissionAnnotationKey, metadata) ==
    admissionRequiredFrom(ignoredList, 1, metadata)

\* The loop of mutationRequired over the table: an entry with no ingressName
\* is skipped, ingressName.(string) of a value that is no string panics, the
\* first entry of the same lower-cased name ends the loop.
RECURSIVE ingressFoundFrom(_, _, _)
ingressFoundFrom(defaultAnnotations, i, name) ==
    IF i > Len(defaultAnnotations) THEN [panic |-> FALSE, val |-> FALSE]
    ELSE LET dflt == defaultAnnotations[i]
         IN  IF "ingressName" \notin DOMAIN dflt
               THEN ingressFoundFrom(defaultAnnotations, i + 1, name)
             ELSE IF dflt["ingressName"].t # "str"
               THEN [panic |-> TRUE, val |-> FALSE]
             ELSE IF ToLower(dflt["ingressName"].s) = ToLower(name)
               THEN [panic |-> FALSE, val |-> TRUE]
             ELSE ingressFoundFrom(defaultAnnotations, i + 1, name)

\* annotations[admissionWebhookAnnotationStatusKey]: "" when the key is absent.
statusOf(annotations) ==
    IF admissionWebhookAnnotationStatusKey \in DOMAIN annotations.m
    THEN annotations.m[admissionWebhookAnnotationStatusKey]
    ELSE ""

\* The status compared as written, not lower-cased.
alreadyMutatedExact(status) == status = "mutated"

\* strings.ToLower(status) == "mutated"
alreadyMutated(status) == ToLower(status) = "mutated"

mutationRequired(ignoredList, defaultAnnotations, metadata) ==
    LET required == admissionRequired(ignoredList, admissionWebhookAnnotationMutateKey, metadata)
    IN  IF required.panic \/ metadata.isNil THEN [panic |-> TRUE, val |-> FALSE]
        ELSE LET annotations == IF metadata.Annotations.isNil
                                THEN MakeMap(EmptyMap) ELSE metadata.Annotations
                 found == ingressFoundFrom(defaultAnnotations, 1, metadata.Name)
             IN  IF found.panic THEN [panic |-> TRUE, val |-> FALSE]
                 ELSE [panic |-> FALSE,
                       val |-> IF alreadyMutated(statusOf(annotations))
                               THEN FALSE ELSE required.val /\ found.val]

-----------------------------------------------------------------------------
\* Patch synthesis.

\* A pass that keeps the value the map already has for the key.
assignIfAbsent(annotations, defaultAnnotations, ann) ==
    IF defaultAnnotations[ann].t # "str" \/ annotations.isNil
    THEN [panic |-> TRUE, annotations |-> annotations, defaultAnnotations |-> defaultAnnotations]
    ELSE [panic |-> FALSE,
          annotations |-> MakeMap([k \in DOMAIN annotations.m \cup {ann} |->
                                     IF k \in DOMAIN annotations.m
                                     THEN annotations.m[k] ELSE defaultAnnotations[ann].s]),
          defaultAnnotations |-> defaultAnnotations]

\* A pass that writes the other way, defaultAnnotations[ann] = annotations[ann].
assignToDefaults(annotations, defaultAnnotations, ann) ==
    [panic |-> FALSE,
     annotations |-> annotations,
     defaultAnnotations |->
        [defaultAnnotations EXCEPT
            ![ann] = Str(IF ann \in DOMAIN annotations.m THEN annotations.m[ann] ELSE "")]]

\* One pass of the loop body of updateAnnotation, annotations[ann] =
\* val.(string): both maps after it. val.(string) of a value that is no
\* string panics and so does a write into a nil map; the map of the defaults
\* is read, never written.
assign(annotations, defaultAnnotations, ann) ==
    IF defaultAnnotations[ann].t # "str" \/ annotations.isNil
    THEN [panic |-> TRUE, annotations |-> annotations, defaultAnnotations |-> defaultAnnotations]
    ELSE [panic |-> FALSE,
          annotations |-> MakeMap([k \in DOMAIN annotations.m \cup {ann} |->
                                     IF k = ann THEN defaultAnnotations[ann].s ELSE annotations.m[k]]),
          defaultAnnotations |-> defaultAnnotations]

\* for ann, val := range defaultAnnotations, over the keys still to visit. Go
\* visits the keys in an order of its choosing; the maps the loop ends with
\* do not depend on it, and a loop that panics panics in every order.
RECURSIVE rangeDefaults(_, _, _)
rangeDefaults(annotations, defaultAnnotations, todo) ==
    IF todo = {}
    THEN [panic |-> FALSE, annotations |-> annotations, defaultAnnotations |-> defaultAnnotations]
    ELSE LET ann == CHOOSE k \in todo : TRUE
             w == assign(annotations, defaultAnnotations, ann)
         IN  IF w.panic THEN w
             ELSE rangeDefaults(w.annotations, w.defaultAnnotations, todo \ {ann})

\* No operation when the map holds nothing.
patchOfNonEmpty(annotations) ==
    IF annotations.m = EmptyMap THEN <<>>
    ELSE << [Op |-> "add", Path |-> "/metadata/annotations", Value |-> annotations] >>

\* The patch operations: one, whose Value is the map it was handed.
patchOf(annotations) ==
    << [Op |-> "add", Path |-> "/metadata/annotations", Value |-> annotations] >>

\* updateAnnotation writes into the map it is handed: patch is what it
\* returns, annotations and defaultAnnotations are the caller's two maps after
\* the call (of a call that panics nothing is used afterwards).
updateAnnotation(annotations, defaultAnnotations) ==
    LET done == rangeDefaults(annotations, defaultAnnotations, DOMAIN defaultAnnotations)
    IN  [panic |-> done.panic,
         patch |-> IF done.panic THEN <<>> ELSE patchOf(done.annotations),
         annotations |-> done.annotations,
         defaultAnnotations |-> done.defaultAnnotations]

\* The loop of createPatch over the table: as in mutationRequired, and the
\* entry found gives dflt["defaultAnnotations"].(map[string]interface{}), which
\* panics when the entry has no such field or the field is no object. val is
\* that map and at the place of its entry in the table (the map is the
\* table's own, not a copy); with no entry found the defaults are a new empty
\* map and at is 0.
RECURSIVE defaultAnnotationsForIngressName(_, _, _)
defaultAnnotationsForIngressName(allDefaultAnnotations, i, ingressName) ==
    IF i > Len(allDefaultAnnotations) THEN [panic |-> FALSE, val |-> EmptyMap, at |-> 0]
    ELSE LET dflt == allDefaultAnnotations[i]
         IN  IF "ingressName" \notin DOMAIN dflt
               THEN defaultAnnotationsForIngressName(allDefaultAnnotations, i + 1, ingressName)
             ELSE IF dflt["ingressName"].t # "str"
               THEN [panic |-> TRUE, val |-> EmptyMap, at |-> 0]
             ELSE IF ToLower(dflt["ingressName"].s) = ToLower(ingressName)
               THEN IF "defaultAnnotations" \in DOMAIN dflt /\ dflt["defaultAnnotations"].t = "obj"
                    THEN [panic |-> FALSE, val |-> dflt["defaultAnnotations"].m, at |-> i]
                    ELSE [panic |-> TRUE, val |-> EmptyMap, at |-> 0]
             ELSE defaultAnnotationsForIngressName(allDefaultAnnotations, i + 1, ingressName)

\* json.Marshal of a map[string]string: null for the nil map, else an object.
Null == [t |-> "null", s |-> "", m |-> EmptyMap]
MarshalMap(annotations) ==
    IF annotations.isNil THEN Null ELSE Obj([k \in DOMAIN annotations.m |-> Str(annotations.m[k])])

\* json.Marshal of []patchOperation: a list of objects. Value is an interface
\* that holds a map, never the nil interface, so omitempty keeps "value".
MarshalPatch(patch) ==
    [i \in DOMAIN patch |->
        Obj(("op" :> Str(patch[i].Op)) @@ ("path" :> Str(patch[i].Path))
            @@ ("value" :> MarshalMap(patch[i].Value)))]

\* The table once the map of its entry at place at holds m.
withDefaults(allDefaultAnnotations, at, m) ==
    IF at = 0 THEN allDefaultAnnotations
    ELSE [allDefaultAnnotations EXCEPT ![at] =
            [k \in DOMAIN @ |-> IF k = "defaultAnnotations" THEN Obj(m) ELSE @[k]]]

\* createPatch: the patch document, and the caller's map and the table after
\* the call. json.Marshal of strings cannot fail, so err is nil whenever it
\* returns.
createPatch(ingressName, availableAnnotations, allDefaultAnnotations) ==
    LET dflts == defaultAnnotationsForIngressName(allDefaultAnnotations, 1, ingressName)
        upd == updateAnnotation(availableAnnotations, dflts.val)
    IN  IF dflts.panic \/ upd.panic
        THEN [panic |-> TRUE, err |-> FALSE, bytes |-> <<>>,
              annotations |-> availableAnnotations, table |-> allDefaultAnnotations]
        ELSE [panic |-> FALSE, err |-> FALSE, bytes |-> MarshalPatch(upd.patch),
              annotations |-> upd.annotations,
              table |-> withDefaults(allDefaultAnnotations, dflts.at, upd.defaultAnnotations)]

-----------------------------------------------------------------------------
\* The handler.

\* v1beta1.AdmissionResponse: Result is the message of its Status ("" for no
\* Status), Patch the patch document when there is one, PatchType "" for nil.
NoPatch == [set |-> FALSE, doc |-> <<>>]
\* A response whose Allowed is left at its zero value.
AdmissionResponseNotAllowed(allowed, message, patch, patchType) ==
    [UID |-> "", Allowed |-> FALSE, Result |-> message, Patch |-> patch, PatchType |-> patchType]

\* A response whose Allowed is always set.
AdmissionResponseAllowed(allowed, message, patch, patchType) ==
    [UID |-> "", Allowed |-> TRUE, Result |-> message, Patch |-> patch, PatchType |-> patchType]

AdmissionResponse(allowed, message, patch, patchType) ==
    [UID |-> "", Allowed |-> allowed, Result |-> message, Patch |-> patch, PatchType |-> patchType]

NoResponse == AdmissionResponse(FALSE, "", NoPatch, "")

\* What mutate comes to: a response, or a panic that unwinds it; and the
\* table after it.
Returns(resp, table) == [panic |-> FALSE, resp |-> resp, table |-> table]
Panics(table) == [panic |-> TRUE, resp |-> NoResponse, table |-> table]

\* v1beta1.AdmissionReview as decoded: its Request (nil when the body names
\* none), with the raw object, which parses as an Ingress or does not.
NilRequest == [isNil |-> TRUE, Kind |-> "", UID |-> "", Object |-> [parses |-> FALSE, meta |-> NilMeta]]
Request(kind, uid, object) == [isNil |-> FALSE, Kind |-> kind, UID |-> uid, Object |-> object]

mutate(ar, defaultAnnotations) ==
    LET req == ar.Request
    IN  IF req.isNil THEN Panics(defaultAnnotations)
        ELSE IF req.Kind = "Ingress" /\ ~req.Object.parses
          THEN Returns(AdmissionResponse(FALSE, "could not unmarshal raw object", NoPatch, ""),
                       defaultAnnotations)
        ELSE LET objectMeta == IF req.Kind = "Ingress" THEN req.Object.meta ELSE NilMeta
                 resourceName == IF req.Kind = "Ingress" THEN req.Object.meta.Name ELSE ""
                 required == mutationRequired(ignoredNamespaces, defaultAnnotations, objectMeta)
             IN  IF required.panic THEN Panics(defaultAnnotations)
                 ELSE IF ~required.val
                   THEN Returns(AdmissionResponse(TRUE, "", NoPatch, ""), defaultAnnotations)
                 ELSE LET made == createPatch(resourceName, objectMeta.Annotations, defaultAnnotations)
                      IN  IF made.panic THEN Panics(made.table)
                          ELSE IF made.err
                            THEN Returns(AdmissionResponse(FALSE, "could not marshal patch", NoPatch, ""),
                                         made.table)
                          ELSE Returns(AdmissionResponse(TRUE, "",
                                         [set |-> TRUE, doc |-> made.bytes], PatchTypeJSONPatch),
                                       made.table)

\* What serve comes to: an HTTP error, a written review (with or without a
\* response in it), or a panic, which net/http recovers from by dropping the
\* connection of that request.
HttpError(code) == [kind |-> "httpError", code |-> code, hasResponse |-> FALSE, Response |-> NoResponse]
Review(resp) == [kind |-> "review", code |-> 200, hasResponse |-> TRUE, Response |-> resp]
EmptyReview == [kind |-> "review", code |-> 200, hasResponse |-> FALSE, Response |-> NoResponse]
Aborted == [kind |-> "panic", code |-> 0, hasResponse |-> FALSE, Response |-> NoResponse]

\* admissionReview.Response.UID = ar.Request.UID, when there is a request.
WithUID(resp, ar) == IF ar.Request.isNil THEN resp ELSE [resp EXCEPT !.UID = ar.Request.UID]

\* r.body.kind: "empty" (no body), "garbage" (the deserializer refuses it) or
\* "review" (it decodes to r.body.ar). out is what the client gets, table the
\* table after the request.
serve(r, defaultAnnotations) ==
    IF r.body.kind = "empty" THEN [out |-> HttpError(400), table |-> defaultAnnotations]
    ELSE IF r.contentType # "application/json"
      THEN [out |-> HttpError(415), table |-> defaultAnnotations]
    ELSE IF r.body.kind = "garbage"
      THEN [out |-> Review(AdmissionResponse(FALSE, "could not decode body", NoPatch, "")),
            table |-> defaultAnnotations]
    ELSE IF r.path = "/mutate"
      THEN LET done == mutate(r.body.ar, defaultAnnotations)
           IN  [out |-> IF done.panic THEN Aborted ELSE Review(WithUID(done.resp, r.body.ar)),
                table |-> done.table]
    ELSE [out |-> EmptyReview, table |-> defaultAnnotations]

-----------------------------------------------------------------------------
\* The inputs.

ObjectNames == {"test-ingress", "CLASS1", "other-ingress"}
Namespaces == {"default", NamespaceSystem, NamespacePublic}
SubmittedPort == "9999"

\* The annotations of a submitted object: none (the nil map), the empty map,
\* or a map that sets the status, the secure port or both.
Annotations ==
    { NilAnnotations,
      MakeMap(EmptyMap),
      MakeMap(SecurePortKey :> SubmittedPort),
      MakeMap(admissionWebhookAnnotationStatusKey :> "mutated"),
      MakeMap(admissionWebhookAnnotationStatusKey :> "MUTATED"),
      MakeMap(admissionWebhookAnnotationStatusKey :> "pending"),
      MakeMap((admissionWebhookAnnotationStatusKey :> "pending") @@ (SecurePortKey :> SubmittedPort)) }

ObjectMetas == { Meta(ns, n, a) : ns \in Namespaces, n \in ObjectNames, a \in Annotations }

Unparseable == [parses |-> FALSE, meta |-> NilMeta]
Parsed(o) == [parses |-> TRUE, meta |-> o]

SampleObject == Parsed(Meta("default", "test-ingress", MakeMap(EmptyMap)))
SampleReview == [Request |-> Request("Ingress", "uid-1", SampleObject)]

\* The objects sent to the server: every object of a namespace that is not
\* excluded, and the objects of one name in an excluded namespace.
ServedMetas ==
    { o \in ObjectMetas :
        o.Namespace = "default" \/ (o.Namespace = NamespaceSystem /\ o.Name = "test-ingress") }

\* The reviews: of an Ingress with every such object, of another kind, and
\* one that names no request.
Reviews ==
    { [Request |-> Request("Ingress", "uid-1", o)] :
         o \in { Parsed(m) : m \in ServedMetas } \cup { Unparseable } }
    \cup { [Request |-> Request("Pod", "uid-1", o)] :
              o \in { SampleObject, Parsed(Meta(NamespaceSystem, "other-ingress", NilAnnotations)) } }
    \cup { [Request |-> NilRequest] }

Http(kind, ar, contentType, path) ==
    [body |-> [kind |-> kind, ar |-> ar], contentType |-> contentType, path |-> path]

HttpRequests ==
    { Http("review", ar, "application/json", "/mutate") : ar \in Reviews }
    \cup { Http("empty", SampleReview, "application/json", "/mutate"),
           Http("garbage", SampleReview, "application/json", "/mutate"),
           Http("garbage", SampleReview, "text/plain", "/mutate"),
           Http("review", SampleReview, "text/plain", "/mutate"),
           Http("review", SampleReview, "application/json", "/validate") }

-----------------------------------------------------------------------------
\* The state.

VARIABLES
    phase,               \* where main is: "boot" before the table is loaded, then "serving"
    annotationCfg,       \* the policy document at parameters.annotationCfg
    defaultAnnotations,  \* WebhookServer.defaultAnnotations
    last,                \* the last request served or call made, and what it came to
    failedBefore,        \* an earlier request was answered with an error response
    hs                   \* the concurrently running handlers

vars == <<phase, annotationCfg, defaultAnnotations, last, failedBefore, hs>>

Handlers == 1..NumHandlers

NoCall == [op |-> "none", in |-> <<>>, out |-> <<>>]

\* A handler that serves no request.
IdleHandler ==
    [pc |-> "idle", r |-> <<>>, meta |-> NilMeta, ann |-> NilAnnotations, at |-> 0,
     merged |-> {}, out |-> Aborted]

Init ==
    /\ phase = "boot"
    /\ annotationCfg \in Documents
    /\ defaultAnnotations = <<>>
    /\ last = NoCall
    /\ failedBefore = FALSE
    /\ hs = [h \in Handlers |-> IdleHandler]

\* main: the document is read and unmarshalled into the table the server is
\* built with, then the server is started.
Main ==
    /\ phase = "boot"
    /\ defaultAnnotations' = LoadTable(annotationCfg)
    /\ phase' = "serving"
    /\ UNCHANGED <<annotationCfg, last, failedBefore, hs>>

\* An error response: a review whose response carries a message.
IsErrorResponse(out) == out.kind = "review" /\ out.hasResponse /\ out.Response.Result # ""

\* One request, served from its arrival to its answer.
Serve(r) ==
    /\ phase = "serving"
    /\ LET done == serve(r, defaultAnnotations)
       IN  /\ last' = [op |-> "serve", in |-> r, out |-> done.out]
           /\ defaultAnnotations' = done.table
    /\ failedBefore' = (failedBefore \/ (last.op = "serve" /\ IsErrorResponse(last.out)))
    /\ UNCHANGED <<phase, annotationCfg, hs>>

\* A call of mutationRequired with the server's list and table.
CallMutationRequired(metadata) ==
    /\ phase = "serving"
    /\ last.op = "none"
    /\ last' = [op |-> "mutationRequired", in |-> metadata,
                out |-> mutationRequired(ignoredNamespaces, defaultAnnotations, metadata)]
    /\ UNCHANGED <<phase, annotationCfg, defaultAnnotations, failedBefore, hs>>

\* A call of createPatch with the server's table.
CallCreatePatch(ingressName, availableAnnotations) ==
    /\ phase = "serving"
    /\ last.op = "none"
    /\ LET made == createPatch(ingressName, availableAnnotations, defaultAnnotations)
       IN  /\ last' = [op |-> "createPatch",
                       in |-> [ingressName |-> ingressName, availableAnnotations |-> availableAnnotations],
                       out |-> [panic |-> made.panic, err |-> made.err, bytes |-> made.bytes,
                                annotations |-> made.annotations]]
           /\ defaultAnnotations' = made.table
    /\ UNCHANGED <<phase, annotationCfg, failedBefore, hs>>

Next ==
    \/ Main
    \/ \E r \in HttpRequests : Serve(r)

Spec == Init /\ [][Next]_vars

NextCalls ==
    \/ Main
    \/ \E metadata \in ObjectMetas : CallMutationRequired(metadata)
    \/ \E n \in ObjectNames, a \in Annotations : CallCreatePatch(n, a)

SpecCalls == Init /\ [][NextCalls]_vars

-----------------------------------------------------------------------------
\* Handlers running at once: net/http runs serve on a goroutine per
\* connection. A handler's steps are those of serve and of what it calls, cut
\* where the table, which the handlers share, is read: the decision, the
\* lookup of createPatch, and every pass of the loop of updateAnnotation.

ConcDocuments ==
    { [kind |-> "list", elems |-> es] :
        es \in { << Obj(("ingressName" :> Str("test-ingress")) @@ ("defaultAnnotations" :> Obj(FullDefaults))) >>,
                 << Obj(("ingressName" :> Str("Class1")) @@ ("defaultAnnotations" :> Obj(BadDefaults))),
                    Obj(("ingressName" :> Str("test-ingress")) @@ ("defaultAnnotations" :> Obj(AltDefaults))) >>,
                 << Obj("ingressName" :> Str("CLASS1")),
                    Obj(("ingressName" :> Str("test-ingress")) @@ ("defaultAnnotations" :> Obj(FullDefaults))) >> } }

IngressReview(o) == Http("review", [Request |-> Request("Ingress", "uid-1", Parsed(o))],
                         "application/json", "/mutate")

ConcRequests ==
    { IngressReview(Meta("default", "test-ingress",
          MakeMap((admissionWebhookAnnotationStatusKey :> "pending") @@ (SecurePortKey :> SubmittedPort)))),
      IngressReview(Meta("default", "CLASS1", MakeMap(EmptyMap))),
      IngressReview(Meta("default", "test-ingress", NilAnnotations)),
      IngressReview(Meta("default", "other-ingress", MakeMap(SecurePortKey :> SubmittedPort))),
      Http("review", [Request |-> Request("Pod", "uid-1", SampleObject)], "application/json", "/mutate"),
      Http("garbage", SampleReview, "application/json", "/mutate") }

InitConc ==
    /\ phase = "boot"
    /\ annotationCfg \in ConcDocuments
    /\ defaultAnnotations = <<>>
    /\ last = NoCall
    /\ failedBefore = FALSE
    /\ hs = [h \in Handlers |-> IdleHandler]

\* The handler has answered (or its panic has been recovered).
Done(r, out) == [IdleHandler EXCEPT !.pc = "done", !.r = r, !.out = out]

\* serve up to the call of mutationRequired: the body is read and decoded and
\* the object unmarshalled; none of it reads the table.
Accept(h, r) ==
    /\ phase = "serving"
    /\ hs[h].pc = "idle"
    /\ hs' = [hs EXCEPT ![h] =
          IF r.body.kind = "empty" THEN Done(r, HttpError(400))
          ELSE IF r.contentType # "application/json" THEN Done(r, HttpError(415))
          ELSE IF r.body.kind = "garbage"
            THEN Done(r, Review(AdmissionResponse(FALSE, "could not decode body", NoPatch, "")))
          ELSE IF r.path # "/mutate" THEN Done(r, EmptyReview)
          ELSE IF r.body.ar.Request.isNil THEN Done(r, Aborted)
          ELSE IF r.body.ar.Request.Kind = "Ingress" /\ ~r.body.ar.Request.Object.parses
            THEN Done(r, Review(WithUID(
                     AdmissionResponse(FALSE, "could not unmarshal raw object", NoPatch, ""), r.body.ar)))
          ELSE LET objectMeta == IF r.body.ar.Request.Kind = "Ingress"
                                 THEN r.body.ar.Request.Object.meta ELSE NilMeta
               IN  [IdleHandler EXCEPT !.pc = "decide", !.r = r, !.meta = objectMeta,
                                       !.ann = objectMeta.Annotations]]
    /\ UNCHANGED <<phase, annotationCfg, defaultAnnotations, last, failedBefore>>

\* mutationRequired, which reads the table.
Decide(h) ==
    /\ hs[h].pc = "decide"
    /\ LET required == mutationRequired(ignoredNamespaces, defaultAnnotations, hs[h].meta)
       IN  hs' = [hs EXCEPT ![h] =
              IF required.panic THEN Done(@.r, Aborted)
              ELSE IF ~required.val
                THEN Done(@.r, Review(WithUID(AdmissionResponse(TRUE, "", NoPatch, ""), @.r.body.ar)))
              ELSE [@ EXCEPT !.pc = "resolve"]]
    /\ UNCHANGED <<phase, annotationCfg, defaultAnnotations, last, failedBefore>>

\* The loop of createPatch, which reads the table and keeps the map of the
\* entry it finds.
Resolve(h) ==
    /\ hs[h].pc = "resolve"
    /\ LET dflts == defaultAnnotationsForIngressName(defaultAnnotations, 1, hs[h].meta.Name)
       IN  hs' = [hs EXCEPT ![h] =
              IF dflts.panic THEN Done(@.r, Aborted)
              ELSE [@ EXCEPT !.pc = "merge", !.at = dflts.at, !.merged = {}]]
    /\ UNCHANGED <<phase, annotationCfg, defaultAnnotations, last, failedBefore>>

\* The map a handler ranges over: that of its entry in the table, or its own
\* empty map.
defaultsOf(h) ==
    IF hs[h].at = 0 THEN EmptyMap ELSE defaultAnnotations[hs[h].at]["defaultAnnotations"].m

\* One pass of the loop of updateAnnotation, for a key not yet visited.
Merge(h, ann) ==
    /\ hs[h].pc = "merge"
    /\ ann \in DOMAIN defaultsOf(h) \ hs[h].merged
    /\ LET w == assign(hs[h].ann, defaultsOf(h), ann)
       IN  /\ hs' = [hs EXCEPT ![h] =
                 IF w.panic THEN Done(@.r, Aborted)
                 ELSE [@ EXCEPT !.ann = w.annotations, !.merged = @ \cup {ann}]]
           /\ defaultAnnotations' = withDefaults(defaultAnnotations, hs[h].at, w.defaultAnnotations)
    /\ UNCHANGED <<phase, annotationCfg, last, failedBefore>>

\* The loop has ended: the patch is marshalled and the review written.
Respond(h) ==
    /\ hs[h].pc = "merge"
    /\ DOMAIN defaultsOf(h) \subseteq hs[h].merged
    /\ hs' = [hs EXCEPT ![h] =
          Done(@.r, Review(WithUID(
              AdmissionResponse(TRUE, "", [set |-> TRUE, doc |-> MarshalPatch(patchOf(@.ann))],
                                PatchTypeJSONPatch), @.r.body.ar)))]
    /\ UNCHANGED <<phase, annotationCfg, defaultAnnotations, last, failedBefore>>

\* The goroutine ends.
Finish(h) ==
    /\ hs[h].pc = "done"
    /\ hs' = [hs EXCEPT ![h] = IdleHandler]
    /\ UNCHANGED <<phase, annotationCfg, defaultAnnotations, last, failedBefore>>

NextConc ==
    \/ Main
    \/ \E h \in Handlers, r \in ConcRequests : Accept(h, r)
    \/ \E h \in Handlers : Decide(h)
    \/ \E h \in Handlers : Resolve(h)
    \/ \E h \in Handlers, ann \in {SecurePortKey, InsecurePortKey} : Merge(h, ann)
    \/ \E h \in Handlers : Respond(h)
    \/ \E h \in Handlers : Finish(h)

SpecConc == InitConc /\ [][NextConc]_vars

-----------------------------------------------------------------------------
\* What the claims speak of.

\* Two strings that differ at most in the case of their letters.
CaseClasses == { {"class1", "Class1", "CLASS1"}, {"mutated", "MUTATED"} }
EqualFold(a, b) == a = b \/ \E c \in CaseClasses : a \in c /\ b \in c

\* A table as the spec's data model has it: every ingressName is a string.
NamesAreStrings(table) ==
    \A i \in DOMAIN table : "ingressName" \in DOMAIN table[i] => table[i]["ingressName"].t = "str"

\* The entry at place i has the name, compared without regard to case.
Matches(table, i, name) ==
    /\ "ingressName" \in DOMAIN table[i]
    /\ table[i]["ingressName"].t = "str"
    /\ EqualFold(table[i]["ingressName"].s, name)

\* The first entry of the name in the table.
FirstMatch(table, i, name) ==
    /\ i \in DOMAIN table
    /\ Matches(table, i, name)
    /\ \A j \in 1..(i - 1) : ~Matches(table, j, name)

\* The object carries the status annotation with the value "mutated", in any case.
MarkedMutated(annotations) ==
    /\ admissionWebhookAnnotationStatusKey \in DOMAIN annotations.m
    /\ EqualFold(annotations.m[admissionWebhookAnnotationStatusKey], "mutated")

\* The three conditions of the decision.
ShouldMutate(metadata, table) ==
    /\ metadata.Namespace \notin {NamespaceSystem, NamespacePublic}
    /\ \E i \in DOMAIN table : Matches(table, i, metadata.Name)
    /\ ~MarkedMutated(metadata.Annotations)

\* The map a patch document sets the annotations to: the value of its first
\* operation, read back as a map from keys to strings.
PatchValue(doc) == [k \in DOMAIN doc[1].m["value"].m |-> doc[1].m["value"].m[k].s]

\* The document is one operation, an add at the annotations.
OneAdd(doc) ==
    /\ Len(doc) = 1
    /\ DOMAIN doc[1].m = {"op", "path", "value"}
    /\ doc[1].m["op"] = Str("add")
    /\ doc[1].m["path"] = Str("/metadata/annotations")
    /\ doc[1].m["value"].t \in {"obj", "null"}

\* C1: over every namespace, name, annotation set and table whose names are
\* strings, mutationRequired returns, and it returns true exactly when the
\* namespace is not excluded, some entry has the object's name (case
\* disregarded) and the status annotation is not "mutated" (case disregarded);
\* nothing else of the object enters the result.
C1_Decision ==
    (last.op = "mutationRequired" /\ NamesAreStrings(defaultAnnotations))
       => /\ ~last.out.panic
          /\ last.out.val <=> ShouldMutate(last.in, defaultAnnotations)

\* A call that returns true for a name that differs in case from its entry's.
C1_Witness ==
    /\ last.op = "mutationRequired"
    /\ NamesAreStrings(defaultAnnotations)
    /\ last.in.Name = "CLASS1"
    /\ ~last.out.panic
    /\ last.out.val

\* C2: for every annotation map A the object has and every matched entry
\* with defaults D, createPatch returns a patch whose value M has the keys of
\* A and of D and no other, with M[k] = D[k] for k in D and M[k] = A[k] for
\* the keys of A not in D.
C2_Merge ==
    \A i \in DOMAIN defaultAnnotations :
        ( /\ last.op = "createPatch"
          /\ ~last.in.availableAnnotations.isNil
          /\ NamesAreStrings(defaultAnnotations)
          /\ FirstMatch(defaultAnnotations, i, last.in.ingressName)
          /\ "defaultAnnotations" \in DOMAIN defaultAnnotations[i]
          /\ \A k \in DOMAIN defaultAnnotations[i]["defaultAnnotations"].m :
                defaultAnnotations[i]["defaultAnnotations"].m[k].t = "str" )
        => LET A == last.in.availableAnnotations.m
               D == defaultAnnotations[i]["defaultAnnotations"].m
               M == PatchValue(last.out.bytes)
           IN  /\ ~last.out.panic
               /\ DOMAIN M = DOMAIN A \cup DOMAIN D
               /\ \A k \in DOMAIN D : M[k] = D[k].s
               /\ \A k \in DOMAIN A \ DOMAIN D : M[k] = A[k]

\* A patch for an object that set the secure port itself, with the policy's
\* value in it.
C2_Witness ==
    /\ last.op = "createPatch"
    /\ ~last.out.panic
    /\ ~last.in.availableAnnotations.isNil
    /\ SecurePortKey \in DOMAIN last.in.availableAnnotations.m
    /\ admissionWebhookAnnotationStatusKey \in DOMAIN last.in.availableAnnotations.m
    /\ last.in.availableAnnotations.m[SecurePortKey] = SubmittedPort
    /\ DOMAIN PatchValue(last.out.bytes) =
          {admissionWebhookAnnotationStatusKey, SecurePortKey, InsecurePortKey}
    /\ PatchValue(last.out.bytes)[SecurePortKey] = "4443"

\* A request that reaches mutate with a review of an Ingress that parses.
IngressServed ==
    /\ last.op = "serve"
    /\ last.in.body.kind = "review"
    /\ last.in.contentType = "application/json"
    /\ last.in.path = "/mutate"
    /\ ~last.in.body.ar.Request.isNil
    /\ last.in.body.ar.Request.Kind = "Ingress"
    /\ last.in.body.ar.Request.Object.parses

\* The object of the request served last.
ServedObject == last.in.body.ar.Request.Object.meta

\* The entry at place i is well formed and has defaults: they are an object
\* of strings, and not empty.
HasDefaults(table, i) ==
    /\ "defaultAnnotations" \in DOMAIN table[i]
    /\ table[i]["defaultAnnotations"].t = "obj"
    /\ DOMAIN table[i]["defaultAnnotations"].m # {}
    /\ \A k \in DOMAIN table[i]["defaultAnnotations"].m : table[i]["defaultAnnotations"].m[k].t = "str"

\* C3: an Ingress in a namespace that is not excluded, whose name matches an
\* entry with defaults and which has no annotations (the field is missing, or
\* it is an empty map), is answered allowed = true with a patch of one add at
\* /metadata/annotations whose value is exactly the entry's defaults. (The
\* code does not do this for the missing field.)
C3_AbsentOrEmpty ==
    \A i \in DOMAIN defaultAnnotations :
        ( /\ IngressServed
          /\ NamesAreStrings(defaultAnnotations)
          /\ ServedObject.Namespace \notin {NamespaceSystem, NamespacePublic}
          /\ FirstMatch(defaultAnnotations, i, ServedObject.Name)
          /\ HasDefaults(defaultAnnotations, i)
          /\ ServedObject.Annotations.m = EmptyMap )
        => /\ last.out.kind = "review"
           /\ last.out.hasResponse
           /\ last.out.Response.Allowed
           /\ last.out.Response.Patch.set
           /\ OneAdd(last.out.Response.Patch.doc)
           /\ PatchValue(last.out.Response.Patch.doc) =
                 [k \in DOMAIN defaultAnnotations[i]["defaultAnnotations"].m |->
                     defaultAnnotations[i]["defaultAnnotations"].m[k].s]

\* C4: a review of a kind other than Ingress is answered allowed = true with
\* no patch, whatever the object and the table. (The code does not answer it.)
C4_OtherKinds ==
    ( /\ last.op = "serve"
      /\ last.in.body.kind = "review"
      /\ last.in.contentType = "application/json"
      /\ last.in.path = "/mutate"
      /\ ~last.in.body.ar.Request.isNil
      /\ last.in.body.ar.Request.Kind # "Ingress" )
    => /\ last.out.kind = "review"
       /\ last.out.hasResponse
       /\ last.out.Response.Allowed
       /\ ~last.out.Response.Patch.set

\* The document is missing, is no JSON, or is JSON of the wrong shape: no
\* list, or a list with an element that is no record.
Malformed(doc) ==
    \/ doc.kind \in {"missing", "syntax", "object"}
    \/ \E i \in DOMAIN doc.elems : doc.elems[i].t # "obj"

\* C5: with a malformed policy document the server runs with a table that is
\* empty: mutationRequired is false of every object and no request is given a
\* patch. (The code keeps the records of a list that has other elements too.)
C5_MalformedGivesEmptyTable ==
    (phase = "serving" /\ Malformed(annotationCfg))
       => /\ \A metadata \in ObjectMetas :
                ~mutationRequired(ignoredNamespaces, defaultAnnotations, metadata).val
          /\ last.op = "serve" => ~last.out.Response.Patch.set

\* C6: every response mutate returns for an Ingress that parses is allowed;
\* it has a patch exactly when mutationRequired returned true of the object,
\* a patch comes with the patch type JSONPatch, and an object whose name no
\* entry has gets no patch.
C6_Responses ==
    (IngressServed /\ last.out.kind = "review")
       => /\ last.out.hasResponse
          /\ last.out.Response.Allowed
          /\ last.out.Response.Patch.set
                <=> mutationRequired(ignoredNamespaces, defaultAnnotations, ServedObject).val
          /\ last.out.Response.Patch.set => last.out.Response.PatchType = "JSONPatch"
          /\ (\A i \in DOMAIN defaultAnnotations : ~Matches(defaultAnnotations, i, ServedObject.Name))
                => ~last.out.Response.Patch.set

\* other-ingress, with a table that has an entry for test-ingress, is allowed
\* without a patch.
C6_Witness ==
    /\ IngressServed
    /\ last.out.kind = "review"
    /\ ServedObject.Name = "other-ingress"
    /\ ServedObject.Namespace = "default"
    /\ \E i \in DOMAIN defaultAnnotations : Matches(defaultAnnotations, i, "test-ingress")
    /\ last.out.Response.Allowed
    /\ ~last.out.Response.Patch.set

\* The defaults createPatch merges: those of the first entry of the name, or
\* none.
DefaultsFor(table, name) ==
    IF \E i \in DOMAIN table : FirstMatch(table, i, name)
    THEN table[CHOOSE i \in DOMAIN table : FirstMatch(table, i, name)]["defaultAnnotations"].m
    ELSE EmptyMap

\* C7: a patch document createPatch produces is one operation, op "add",
\* path "/metadata/annotations", and its value is the whole merged map, for
\* every name, annotation set and table, also when no entry matches.
C7_OneAdd ==
    (last.op = "createPatch" /\ ~last.out.panic)
       => LET A == last.in.availableAnnotations
              D == DefaultsFor(defaultAnnotations, last.in.ingressName)
          IN  /\ ~last.out.err
              /\ OneAdd(last.out.bytes)
              /\ last.out.bytes[1].m["value"].t = "null" <=> A.isNil
              /\ PatchValue(last.out.bytes) =
                    [k \in DOMAIN A.m \cup DOMAIN D |-> IF k \in DOMAIN D THEN D[k].s ELSE A.m[k]]

\* A patch for a name that no entry has: its value is the map as it was.
C7_Witness ==
    /\ last.op = "createPatch"
    /\ ~last.out.panic
    /\ last.in.ingressName = "other-ingress"
    /\ defaultAnnotations # <<>>
    /\ last.in.availableAnnotations.m # EmptyMap
    /\ OneAdd(last.out.bytes)
    /\ PatchValue(last.out.bytes) = last.in.availableAnnotations.m

\* The body does not decode to a review.
DecodeFails(r) == r.body.kind = "garbage" /\ r.contentType = "application/json"

\* The body decodes to a review of an Ingress whose raw object does not parse.
UnmarshalFails(r) ==
    /\ r.body.kind = "review"
    /\ r.contentType = "application/json"
    /\ r.path = "/mutate"
    /\ ~r.body.ar.Request.isNil
    /\ r.body.ar.Request.Kind = "Ingress"
    /\ ~r.body.ar.Request.Object.parses

\* C8: a body that does not decode, or an Ingress whose raw object does not
\* parse, is answered with a review response that is not allowed, has a
\* message and no patch; the server's table is as it was loaded, and a
\* well-formed request that follows a failed one gets the answer it gets from
\* a server that has served nothing before.
C8_ErrorsAreLocal ==
    /\ (last.op = "serve" /\ (DecodeFails(last.in) \/ UnmarshalFails(last.in)))
          => /\ last.out.kind = "review"
             /\ last.out.hasResponse
             /\ ~last.out.Response.Allowed
             /\ last.out.Response.Result # ""
             /\ ~last.out.Response.Patch.set
             /\ last.out.Response.PatchType = ""
    /\ phase = "serving" => defaultAnnotations = LoadTable(annotationCfg)
    /\ (failedBefore /\ IngressServed)
          => last.out = serve(last.in, LoadTable(annotationCfg)).out

\* After a request that failed, an Ingress is patched.
C8_Witness ==
    /\ failedBefore
    /\ IngressServed
    /\ last.out.kind = "review"
    /\ last.out.Response.Allowed
    /\ last.out.Response.Patch.set

C10_HandlersIndependent ==
    /\ phase = "serving" => defaultAnnotations = LoadTable(annotationCfg)
    /\ \A h \in Handlers :
          hs[h].pc = "done" => hs[h].out = serve(hs[h].r, LoadTable(annotationCfg)).out

\* One handler has answered with a patch while another, merging the defaults
\* of the same entry, is part of the way through them.
C10_Witness ==
    \E h, g \in Handlers :
        /\ h # g
        /\ hs[h].pc = "done"
        /\ hs[h].out.kind = "review"
        /\ hs[h].out.Response.Patch.set
        /\ hs[g].pc = "merge"
        /\ hs[g].at # 0
        /\ hs[g].merged # {}
        /\ hs[g].merged # DOMAIN defaultsOf(g)

\* A table of Policy Entries as the spec's data model has them: an entry that
\* has a name has a string for it and has defaults, an object of strings.
PolicyEntries(table) ==
    \A i \in DOMAIN table :
        "ingressName" \in DOMAIN table[i]
           => /\ table[i]["ingressName"].t = "str"
              /\ "defaultAnnotations" \in DOMAIN table[i]
              /\ table[i]["defaultAnnotations"].t = "obj"
              /\ \A k \in DOMAIN table[i]["defaultAnnotations"].m :
                    table[i]["defaultAnnotations"].m[k].t = "str"

\* The map with the defaults D written over A.
Merged(A, D) == [k \in DOMAIN A \cup DOMAIN D |-> IF k \in DOMAIN D THEN D[k].s ELSE A[k]]

\* C11: the lookup of the decision and that of createPatch are one: both pass
\* over entries with no ingressName and find the first entry, in table order,
\* whose name is the object's, case disregarded; createPatch merges the
\* defaults of that entry and of no later one of the same name; with no such
\* entry the patch value is the annotations as they are; and whenever
\* mutationRequired returns true of a name, createPatch called with that name
\* completes with a patch. (The code does not complete for an object whose
\* annotations are absent.)
C11_SameLookup ==
    (last.op = "createPatch" /\ PolicyEntries(defaultAnnotations))
       => LET name == last.in.ingressName
              A == last.in.availableAnnotations
              found == ingressFoundFrom(defaultAnnotations, 1, name)
              dflts == defaultAnnotationsForIngressName(defaultAnnotations, 1, name)
              required == mutationRequired(ignoredNamespaces, defaultAnnotations,
                                           Meta("default", name, A))
          IN  /\ ~found.panic
              /\ ~dflts.panic
              /\ found.val <=> (\E i \in DOMAIN defaultAnnotations :
                                    FirstMatch(defaultAnnotations, i, name))
              /\ found.val <=> (dflts.at # 0)
              /\ \A i \in DOMAIN defaultAnnotations :
                    FirstMatch(defaultAnnotations, i, name)
                       => /\ dflts.at = i
                          /\ dflts.val = defaultAnnotations[i]["defaultAnnotations"].m
              /\ ~found.val
                    => /\ dflts.val = EmptyMap
                       /\ ~last.out.panic
                       /\ OneAdd(last.out.bytes)
                       /\ PatchValue(last.out.bytes) = A.m
              /\ required.val
                    => /\ ~required.panic
                       /\ dflts.at # 0
                       /\ ~last.out.panic
                       /\ OneAdd(last.out.bytes)
                       /\ PatchValue(last.out.bytes) = Merged(A.m, dflts.val)

====
